---- MODULE Spec2Model ----
(***************************************************************************)
(* The emissions pipeline of app.py: a CSV is loaded into the SQLite table *)
(* emissions(industry TEXT, year INTEGER, emissions_mtco2e REAL), three    *)
(* queries are run on it and a console text and a static report are        *)
(* written.  Text is a sequence of byte codes (SQLite orders TEXT with the *)
(* BINARY collation, memcmp); emission amounts are whole numbers of the    *)
(* unit, on which REAL addition is exact.                                  *)
(***************************************************************************)
EXTENDS Integers, Sequences, FiniteSets

\* ------------------------------------------------------------------ bounds
NumIndustries == 6
MaxValue == 2
MaxRows == 3
MaxCsvRows == 2

\* WHERE emissions_rank <= 5
TopN == 5

\* ------------------------------------------------------------------ values
\* Python's None; a present value x is <<x>>.
None == << >>
Some(x) == <<x>>

\* A value as SQLite stores it: its storage class, its number, its text.
SqlInteger(n) == [t |-> "integer", v |-> n, s |-> << >>]
SqlReal(n) == [t |-> "real", v |-> n, s |-> << >>]
SqlText(s) == [t |-> "text", v |-> 0, s |-> s]
SqlNull == [t |-> "null", v |-> 0, s |-> << >>]

\* Industry names: "B", "a", "A", "AB", "Z", "b", "C", "Aa".
Names == << <<66>>, <<97>>, <<65>>, <<65, 66>>, <<90>>, <<98>>, <<67>>, <<65, 97>> >>
Industries == {Names[i] : i \in 1..NumIndustries}
FewIndustries == {Names[1], Names[2]}
\* The text abc, and the industry code 07.
Abc == <<97, 98, 99>>
Code07 == <<48, 55>>

\* The BINARY collation: bytewise, a proper prefix first.
RECURSIVE TextLess(_, _)
TextLess(a, b) ==
    IF b = << >> THEN FALSE
    ELSE IF a = << >> THEN TRUE
    ELSE IF Head(a) # Head(b) THEN Head(a) < Head(b)
    ELSE TextLess(Tail(a), Tail(b))

RECURSIVE SetMax(_)
SetMax(S) ==
    LET x == CHOOSE y \in S : TRUE
    IN  IF S = {x} THEN x
        ELSE LET m == SetMax(S \ {x}) IN IF x > m THEN x ELSE m

\* The least text of a non-empty set of texts.
MinText(S) == CHOOSE a \in S : \A b \in S \ {a} : TextLess(a, b)

\* ----------------------------------------------------------------- queries
Range(q) == {q[i] : i \in 1..Len(q)}

\* MaxYear, were the year of the last row taken for the latest.
YearOfLastRow(rows) ==
    IF rows = << >> THEN None ELSE Some(rows[Len(rows)].year.v)

\* SELECT MAX(year) FROM emissions: NULL on an empty table.
MaxYear(rows) ==
    IF rows = << >> THEN None ELSE Some(SetMax({r.year.v : r \in Range(rows)}))

fetch_most_recent_year(rows) == MaxYear(rows)

\* The number SUM() adds for a stored value: text that is no number counts 0.
Numeric(x) == IF x.t \in {"integer", "real"} THEN x.v ELSE 0

RECURSIVE SumSeq(_)
SumSeq(q) == IF q = << >> THEN 0 ELSE Numeric(Head(q)) + SumSeq(Tail(q))

\* JoinLatest, were the join on the year left out.
JoinEveryYear(rows) == rows

\* emissions e JOIN latest_year ly ON e.year = ly.year
JoinLatest(rows) ==
    LET ly == MaxYear(rows)
    IN  SelectSeq(rows, LAMBDA r : ly # None /\ r.year.v = ly[1])

\* The emissions_mtco2e of the rows of one industry, in table order.
RECURSIVE ValuesOf(_, _)
ValuesOf(rows, ind) ==
    IF rows = << >> THEN << >>
    ELSE (IF Head(rows).industry.s = ind THEN <<Head(rows).emissions_mtco2e>> ELSE << >>)
         \o ValuesOf(Tail(rows), ind)

\* GROUP BY e.industry over the given industries, groups in industry order.
RECURSIVE GroupSums(_, _)
GroupSums(rows, inds) ==
    IF inds = {} THEN << >>
    ELSE LET i == MinText(inds)
         IN  <<[industry |-> i, total_emissions |-> SumSeq(ValuesOf(rows, i))]>>
             \o GroupSums(rows, inds \ {i})

\* The CTE totals.
Totals(rows) ==
    LET joined == JoinLatest(rows)
    IN  GroupSums(joined, {r.industry.s : r \in Range(joined)})

\* ORDER BY total_emissions DESC
TotalDesc(a, b) == a.total_emissions > b.total_emissions

\* RankThenIndustry, were the industries of a rank put in descending order.
RankThenIndustryDesc(a, b) ==
    \/ a.emissions_rank < b.emissions_rank
    \/ a.emissions_rank = b.emissions_rank /\ TextLess(b.industry, a.industry)

\* ORDER BY emissions_rank, industry
RankThenIndustry(a, b) ==
    \/ a.emissions_rank < b.emissions_rank
    \/ a.emissions_rank = b.emissions_rank /\ TextLess(a.industry, b.industry)

\* Whether row a comes before row b under an ORDER BY clause.
Before(clause, a, b) ==
    IF clause = "total_emissions DESC" THEN TotalDesc(a, b) ELSE RankThenIndustry(a, b)

\* The rows in the order of the clause, rows that tie in the order they had:
\* a row's place is one more than the number of rows that come before it, or
\* tie with it and stand earlier in q.
SortBy(q, clause) ==
    LET pos(i) == 1 + Cardinality({j \in 1..Len(q) :
                        j # i /\ (\/ Before(clause, q[j], q[i])
                                  \/ ~Before(clause, q[i], q[j]) /\ j < i)})
    IN  [k \in 1..Len(q) |-> q[CHOOSE i \in 1..Len(q) : pos(i) = k]]

fetch_totals_for_latest_year(rows) == SortBy(Totals(rows), "total_emissions DESC")

\* Rank, were DENSE_RANK() written for RANK().
DenseRank(totals, x) ==
    1 + Cardinality({totals[i].total_emissions : i \in
            {j \in 1..Len(totals) : totals[j].total_emissions > x.total_emissions}})

\* RANK() OVER (ORDER BY total_emissions DESC): one more than the number of
\* rows that come strictly before.
Rank(totals, x) ==
    1 + Cardinality({i \in 1..Len(totals) : totals[i].total_emissions > x.total_emissions})

\* The CTE ranked.
Ranked(totals) ==
    [i \in 1..Len(totals) |->
        [industry |-> totals[i].industry,
         total_emissions |-> totals[i].total_emissions,
         emissions_rank |-> Rank(totals, totals[i])]]

\* fetch_top5_ranked, were the WHERE clause left out.
fetch_all_ranked(rows) == SortBy(Ranked(Totals(rows)), "emissions_rank, industry")

fetch_top5_ranked(rows) ==
    SortBy(SelectSeq(Ranked(Totals(rows)), LAMBDA r : r.emissions_rank <= TopN),
           "emissions_rank, industry")

\* ------------------------------------------------------------------ loader
\* A CSV field is its text: "2020" is <<50, 48, 50, 48>>, an empty field << >>.
IsDigit(c) == 48 <= c /\ c <= 57
LooksNumeric(s) == s # << >> /\ \A i \in 1..Len(s) : IsDigit(s[i])

RECURSIVE ParseInt(_)
ParseInt(s) ==
    IF s = << >> THEN 0 ELSE 10 * ParseInt(SubSeq(s, 1, Len(s) - 1)) + (s[Len(s)] - 48)

RECURSIVE FormatInt(_)
FormatInt(n) == IF n < 10 THEN <<48 + n>> ELSE FormatInt(n \div 10) \o <<48 + (n % 10)>>

\* A value of a DataFrame cell.
PyInt(n) == [t |-> "int", v |-> n, s |-> << >>]
PyFloat(n) == [t |-> "float", v |-> n, s |-> << >>]
PyStr(s) == [t |-> "str", v |-> 0, s |-> s]
NaN == [t |-> "nan", v |-> 0, s |-> << >>]

Columns == {"industry", "year", "emissions_mtco2e"}

\* The dtype pandas infers for a column from its fields.
ColumnDtype(fields) ==
    IF \E f \in fields : f # << >> /\ ~LooksNumeric(f) THEN "object"
    ELSE IF fields = {} THEN "object"
    ELSE IF << >> \in fields THEN "float64"
    ELSE "int64"

ParseField(dtype, f) ==
    IF f = << >> THEN NaN
    ELSE IF dtype = "int64" THEN PyInt(ParseInt(f))
    ELSE IF dtype = "float64" THEN PyFloat(ParseInt(f))
    ELSE PyStr(f)

\* pd.read_csv: every column parsed under its inferred dtype.
read_csv(file) ==
    LET dtype == [c \in Columns |-> ColumnDtype({file[i][c] : i \in 1..Len(file)})]
    IN  [i \in 1..Len(file) |-> [c \in Columns |-> ParseField(dtype[c], file[i][c])]]

\* The value sqlite3 binds for a cell; pandas hands NaN over as None.
Bind(x) ==
    IF x.t = "int" THEN SqlInteger(x.v)
    ELSE IF x.t = "float" THEN SqlReal(x.v)
    ELSE IF x.t = "str" THEN SqlText(x.s)
    ELSE SqlNull

\* The declared types of CREATE TABLE emissions.
Affinity == [industry |-> "TEXT", year |-> "INTEGER", emissions_mtco2e |-> "REAL"]

\* SQLite's column affinity, applied to a value on insert.
ApplyAffinity(aff, x) ==
    IF aff = "INTEGER" THEN
        IF x.t = "real" THEN SqlInteger(x.v)
        ELSE IF x.t = "text" /\ LooksNumeric(x.s) THEN SqlInteger(ParseInt(x.s))
        ELSE x
    ELSE IF aff = "REAL" THEN
        IF x.t = "integer" THEN SqlReal(x.v)
        ELSE IF x.t = "text" /\ LooksNumeric(x.s) THEN SqlReal(ParseInt(x.s))
        ELSE x
    ELSE
        IF x.t = "integer" THEN SqlText(FormatInt(x.v))
        ELSE IF x.t = "real" THEN SqlText(FormatInt(x.v) \o <<46, 48>>)
        ELSE x

StoredRow(r) == [c \in Columns |-> ApplyAffinity(Affinity[c], Bind(r[c]))]

\* NOT NULL on every column.
ViolatesNotNull(r) == \E c \in Columns : r[c].t = "null"

\* The rows df.to_sql inserts.
InsertRows(frame) == [i \in 1..Len(frame) |-> StoredRow(frame[i])]

IntegrityError(frame) == \E i \in 1..Len(frame) : ViolatesNotNull(StoredRow(frame[i]))

IndexNames == {"idx_emissions_year", "idx_emissions_industry_year"}

\* ------------------------------------------------------------------- state
VARIABLES
    csv,              \* the fields of the data rows of emissions.csv
    csv_exists,       \* CSV_PATH.exists()
    docs_writable,    \* whether docs/ can be made and written
    seaborn_draws_empty,  \* whether the installed seaborn's barplot takes a
                      \* frame without rows (no version is pinned)
    table_exists,     \* whether emissions.db has the table emissions
    table,            \* its rows, in rowid order
    indexes,          \* the indexes on it
    open,             \* the connections that are open
    pc,               \* the statement of main that runs next
    df,               \* the loader's DataFrame
    most_recent_year, totals_df, top5_df,   \* main's locals
    stdout,           \* what main printed in this run
    report,           \* docs/index.html, with its chart
    error             \* the exception that ended the run

vars == <<csv, csv_exists, docs_writable, seaborn_draws_empty, table_exists, table, indexes, open, pc, df,
          most_recent_year, totals_df, top5_df, stdout, report, error>>

store == <<table_exists, table, indexes>>
locals == <<df, most_recent_year, totals_df, top5_df>>
inputs == <<csv, csv_exists, docs_writable, seaborn_draws_empty>>

\* ---------------------------------------------------------------- reporter
\* plot_top5_bar: the frame is sorted by total, descending, and handed to
\* sns.barplot with palette="Reds_r" and no hue; a frame without rows is
\* drawn as empty axes by a seaborn that returns early on it and raises
\* ValueError in one that works out the palette of its zero bars.  The figure
\* is then saved to output_path.
plot_top5_bar(top5) ==
    IF top5 = << >> /\ ~seaborn_draws_empty
    THEN [raised |-> "ValueError", chart |-> None]
    ELSE [raised |-> "none", chart |-> Some(SortBy(top5, "total_emissions DESC"))]

\* write_static_report: output_dir.mkdir, the chart, the two tables as HTML,
\* index.html.  What it raises, and the page and chart it wrote if it raised
\* nothing; a chart that is not drawn leaves no page.
write_static_report(year, totals, top5) ==
    IF ~docs_writable THEN [raised |-> "OSError", written |-> None]
    ELSE LET plot == plot_top5_bar(top5)
         IN  IF plot.raised # "none"
             THEN [raised |-> plot.raised, written |-> None]
             ELSE [raised |-> "none",
                   written |-> Some([most_recent_year |-> year,
                                     totals_table |-> totals,
                                     top5_table |-> top5,
                                     chart |-> plot.chart[1]])]

\* The files a run may find: rows of an industry given by name or by code, of
\* two years or none, with an amount or a word.
CsvRows ==
    [industry : {Names[1], Code07},
     year : {FormatInt(2020), FormatInt(2021), << >>},
     emissions_mtco2e : {FormatInt(1), FormatInt(2), Abc}]
CsvFiles == UNION {[1..n -> CsvRows] : n \in 0..MaxCsvRows}

\* What an earlier run on another file may have left in the store.
StaleRows ==
    {[industry |-> SqlText(i), year |-> SqlInteger(2021), emissions_mtco2e |-> SqlReal(1)] :
        i \in FewIndustries}

Init ==
    /\ csv \in CsvFiles
    /\ csv_exists \in BOOLEAN
    /\ docs_writable \in BOOLEAN
    /\ seaborn_draws_empty \in BOOLEAN
    /\ \/ table_exists = FALSE /\ table = << >> /\ indexes = {}
       \/ table_exists = TRUE /\ table \in {<<r>> : r \in StaleRows} /\ indexes = IndexNames
    /\ open = {}
    /\ pc = "start"
    /\ df = << >>
    /\ most_recent_year = None
    /\ totals_df = << >>
    /\ top5_df = << >>
    /\ stdout = None
    /\ report = None
    /\ error = "none"

\* ----------------------------------------------------------------- actions
\* CheckCsv, were the test of the file left out.
CheckCsvOmitted ==
    /\ pc = "start"
    /\ pc' = "loader_connect"
    /\ UNCHANGED <<inputs, store, open, locals, stdout, report, error>>

\* main: if not CSV_PATH.exists(): raise FileNotFoundError
CheckCsv ==
    /\ pc = "start"
    /\ IF csv_exists
       THEN pc' = "loader_connect" /\ error' = error
       ELSE pc' = "done" /\ error' = "FileNotFoundError"
    /\ UNCHANGED <<inputs, store, open, locals, stdout, report>>

\* initialize_database_with_csv: connection = sqlite3.connect(db_path)
LoaderConnect ==
    /\ pc = "loader_connect"
    /\ open' = open \cup {"loader"}
    /\ pc' = "drop_create"
    /\ UNCHANGED <<inputs, store, locals, stdout, report, error>>

\* DROP TABLE IF EXISTS emissions; CREATE TABLE emissions (...): each commits
\* as it runs, and the table's indexes go with it.
DropAndCreate ==
    /\ pc = "drop_create"
    /\ table_exists' = TRUE
    /\ table' = << >>
    /\ indexes' = {}
    /\ pc' = "read_csv"
    /\ UNCHANGED <<inputs, open, locals, stdout, report, error>>

\* df = pd.read_csv(csv_path)
ReadCsv ==
    /\ pc = "read_csv"
    /\ df' = read_csv(csv)
    /\ pc' = "to_sql"
    /\ UNCHANGED <<inputs, store, open, most_recent_year, totals_df, top5_df,
                   stdout, report, error>>

\* df.to_sql("emissions", connection, if_exists="append", index=False): one
\* transaction, rolled back when a row is refused.
ToSql ==
    /\ pc = "to_sql"
    /\ IF IntegrityError(df)
       THEN /\ error' = "IntegrityError"
            /\ pc' = "loader_close"
            /\ table' = table
       ELSE /\ table' = table \o InsertRows(df)
            /\ pc' = "create_indexes"
            /\ error' = error
    /\ UNCHANGED <<inputs, table_exists, indexes, open, locals, stdout, report>>

\* CREATE INDEX IF NOT EXISTS ... (twice); connection.commit()
CreateIndexes ==
    /\ pc = "create_indexes"
    /\ indexes' = indexes \cup IndexNames
    /\ pc' = "loader_close"
    /\ UNCHANGED <<inputs, table_exists, table, open, locals, stdout, report, error>>

\* LoaderClose, were the connection closed after the commit and not in a
\* finally clause.
LoaderCloseOnSuccessOnly ==
    /\ pc = "loader_close"
    /\ open' = IF error = "none" THEN open \ {"loader"} ELSE open
    /\ pc' = IF error = "none" THEN "main_connect" ELSE "done"
    /\ UNCHANGED <<inputs, store, locals, stdout, report, error>>

\* finally: connection.close(); an exception then leaves main.
LoaderClose ==
    /\ pc = "loader_close"
    /\ open' = open \ {"loader"}
    /\ pc' = IF error = "none" THEN "main_connect" ELSE "done"
    /\ UNCHANGED <<inputs, store, locals, stdout, report, error>>

\* main: connection = sqlite3.connect(DB_PATH)
MainConnect ==
    /\ pc = "main_connect"
    /\ open' = open \cup {"main"}
    /\ pc' = "aggregate"
    /\ UNCHANGED <<inputs, store, locals, stdout, report, error>>

\* most_recent_year, totals_df, top5_df = the three queries
Aggregate ==
    /\ pc = "aggregate"
    /\ most_recent_year' = fetch_most_recent_year(table)
    /\ totals_df' = fetch_totals_for_latest_year(table)
    /\ top5_df' = fetch_top5_ranked(table)
    /\ pc' = "print"
    /\ UNCHANGED <<inputs, store, open, df, stdout, report, error>>

\* The prints of the year and of the two tables.
PrintConsole ==
    /\ pc = "print"
    /\ stdout' = Some([most_recent_year |-> most_recent_year, totals |-> totals_df,
                       top5 |-> top5_df, saved_report |-> FALSE])
    /\ pc' = "report"
    /\ UNCHANGED <<inputs, store, open, locals, report, error>>

\* report_index = write_static_report(most_recent_year, totals_df, top5_df,
\* DOCS_DIR); print(f"Saved GitHub Pages report to: {report_index}").  An
\* exception of the report skips the print and goes to the finally clause.
WriteStaticReport ==
    /\ pc = "report"
    /\ LET out == write_static_report(most_recent_year, totals_df, top5_df)
       IN  IF out.raised = "none"
           THEN /\ report' = out.written
                /\ stdout' = Some([stdout[1] EXCEPT !.saved_report = TRUE])
                /\ error' = error
           ELSE /\ report' = report
                /\ stdout' = stdout
                /\ error' = out.raised
    /\ pc' = "main_close"
    /\ UNCHANGED <<inputs, store, open, locals>>

\* finally: connection.close()
MainClose ==
    /\ pc = "main_close"
    /\ open' = open \ {"main"}
    /\ pc' = "done"
    /\ UNCHANGED <<inputs, store, locals, stdout, report, error>>

\* The next invocation of app.py; the file may have been removed or put back
\* in between.  The store and docs/ stay as the last run left them.
Rerun ==
    /\ pc = "done"
    /\ csv_exists' \in BOOLEAN
    /\ pc' = "start"
    /\ df' = << >>
    /\ most_recent_year' = None
    /\ totals_df' = << >>
    /\ top5_df' = << >>
    /\ stdout' = None
    /\ error' = "none"
    /\ UNCHANGED <<csv, docs_writable, seaborn_draws_empty, store, open, report>>

Next ==
    \/ CheckCsv
    \/ LoaderConnect
    \/ DropAndCreate
    \/ ReadCsv
    \/ ToSql
    \/ CreateIndexes
    \/ LoaderClose
    \/ MainConnect
    \/ Aggregate
    \/ PrintConsole
    \/ WriteStaticReport
    \/ MainClose
    \/ Rerun

Spec == Init /\ [][Next]_vars

\* ------------------------------------------------- the queries on any table
Row(i, y, v) == [industry |-> SqlText(i), year |-> SqlInteger(y), emissions_mtco2e |-> SqlReal(v)]

\* One row or none for each industry, all of one year.
WideTables ==
    {SelectSeq([i \in 1..NumIndustries |-> Row(Names[i], 2020, f[i])],
               LAMBDA r : r.emissions_mtco2e.v > 0) :
        f \in [1..NumIndustries -> 0..MaxValue]}

\* Any few rows, in any order, of few industries over three years.
SmallRows == {Row(i, y, v) : i \in FewIndustries, y \in 2019..2021, v \in 1..MaxValue}
SmallTables == UNION {[1..n -> SmallRows] : n \in 0..MaxRows}

\* main's second connection on a store of any content.
InitQuery ==
    /\ table \in WideTables \cup SmallTables
    /\ table_exists = TRUE
    /\ indexes = IndexNames
    /\ csv = << >>
    /\ csv_exists = TRUE
    /\ docs_writable = TRUE
    /\ seaborn_draws_empty = TRUE
    /\ open = {"main"}
    /\ pc = "aggregate"
    /\ df = << >>
    /\ most_recent_year = None
    /\ totals_df = << >>
    /\ top5_df = << >>
    /\ stdout = None
    /\ report = None
    /\ error = "none"

NextQuery == Aggregate

SpecQuery == InitQuery /\ [][NextQuery]_vars

\* ------------------------------------------------------------------ claims
\* The table, read without the queries: the rows of the greatest year.
LatestRows ==
    {k \in 1..Len(table) : \A j \in 1..Len(table) : table[j].year.v <= table[k].year.v}
IndustriesAtLatest == {table[k].industry.s : k \in LatestRows}

RECURSIVE SumAt(_)
SumAt(S) ==
    IF S = {} THEN 0
    ELSE LET k == CHOOSE j \in S : TRUE
         IN  table[k].emissions_mtco2e.v + SumAt(S \ {k})

RECURSIVE SumTotals(_)
SumTotals(q) == IF q = << >> THEN 0 ELSE Head(q).total_emissions + SumTotals(Tail(q))

Aggregated == pc = "print"

\* C1 as stated: every row of the top-5 output carries the dense rank of its
\* total, one more than the number of distinct greater totals of the latest year.
C1_DenseRank ==
    Aggregated =>
        \A i \in 1..Len(top5_df) :
            top5_df[i].emissions_rank =
                1 + Cardinality({totals_df[j].total_emissions : j \in
                        {k \in 1..Len(totals_df) :
                            totals_df[k].total_emissions > top5_df[i].total_emissions}})

\* C1 as amended: every row of the top-5 output carries the standard RANK of
\* its total, one more than the number of industries of the latest year with a
\* strictly greater total: equal totals share a rank, and the rank of the next
\* lower total is greater by the number of industries that share the total
\* above it.
C1_StandardRank ==
    Aggregated =>
        /\ \A i \in 1..Len(top5_df) :
              top5_df[i].emissions_rank =
                  1 + Cardinality({k \in 1..Len(totals_df) :
                          totals_df[k].total_emissions > top5_df[i].total_emissions})
        /\ \A i, j \in 1..Len(top5_df) :
              top5_df[i].total_emissions = top5_df[j].total_emissions
                  => top5_df[i].emissions_rank = top5_df[j].emissions_rank
        /\ \A i \in 1..Len(top5_df) - 1 :
              top5_df[i].total_emissions > top5_df[i + 1].total_emissions
                  => top5_df[i + 1].emissions_rank =
                         top5_df[i].emissions_rank
                         + Cardinality({k \in 1..Len(top5_df) :
                               top5_df[k].total_emissions = top5_df[i].total_emissions})

\* Two industries tie for rank 1 and the next total is ranked 3.
C1_Witness ==
    /\ Aggregated
    /\ Len(top5_df) >= 3
    /\ top5_df[1].emissions_rank = 1
    /\ top5_df[2].emissions_rank = 1
    /\ top5_df[3].emissions_rank = 3

\* C2: the totals have exactly one row for each industry with a record of the
\* latest year, the row's total is the sum of the industry's values of that
\* year, the totals add up to the sum of all values of that year, and the rows
\* are in non-increasing order of total.
C2_TotalsOfLatestYear ==
    Aggregated =>
        /\ {totals_df[i].industry : i \in 1..Len(totals_df)} = IndustriesAtLatest
        /\ Len(totals_df) = Cardinality(IndustriesAtLatest)
        /\ \A i \in 1..Len(totals_df) :
              totals_df[i].total_emissions =
                  SumAt({k \in LatestRows : table[k].industry.s = totals_df[i].industry})
        /\ SumTotals(totals_df) = SumAt(LatestRows)
        /\ \A i \in 1..Len(totals_df) - 1 :
              totals_df[i].total_emissions >= totals_df[i + 1].total_emissions

\* An industry has two records of the latest year, and a record of an earlier
\* year is in the table.
C2_Witness ==
    /\ Aggregated
    /\ \E i, j \in LatestRows : i # j /\ table[i].industry = table[j].industry
    /\ LatestRows # 1..Len(table)
    /\ totals_df # << >>

\* C3: the top-5 output has only ranks up to 5, at most 5 distinct ranks, at
\* most as many rows as industries of the latest year, and every row carries
\* the total the totals query reports for its industry.
C3_Top5Bounded ==
    Aggregated =>
        /\ \A i \in 1..Len(top5_df) : top5_df[i].emissions_rank <= 5
        /\ Cardinality({top5_df[i].emissions_rank : i \in 1..Len(top5_df)}) <= 5
        /\ Len(top5_df) <= Cardinality(IndustriesAtLatest)
        /\ \A i \in 1..Len(top5_df) :
              \E j \in 1..Len(totals_df) :
                  /\ totals_df[j].industry = top5_df[i].industry
                  /\ totals_df[j].total_emissions = top5_df[i].total_emissions

\* Six industries have totals and the one ranked 6 is left out.
C3_Witness ==
    /\ Aggregated
    /\ Len(totals_df) >= 6
    /\ Len(top5_df) = 5
    /\ top5_df[5].total_emissions > totals_df[6].total_emissions

\* C4: in the top-5 output no row of a greater rank stands before a row of a
\* smaller one, and of two industries of equal total the one whose name is
\* smaller in the order of the store's text stands first.
C4_RankThenName ==
    Aggregated =>
        \A i, j \in 1..Len(top5_df) :
            i < j =>
                /\ top5_df[i].emissions_rank <= top5_df[j].emissions_rank
                /\ top5_df[i].total_emissions = top5_df[j].total_emissions
                       => TextLess(top5_df[i].industry, top5_df[j].industry)

\* Industries of equal total come out in an order of names that is not the
\* order of their rows in the table.
C4_Witness ==
    /\ Aggregated
    /\ Len(top5_df) >= 3
    /\ top5_df[1].total_emissions = top5_df[3].total_emissions
    /\ top5_df[1].industry = Names[3]
    /\ top5_df[3].industry = Names[1]
    /\ table[1].industry.s = Names[1]

\* C5: the most recent year is None on an empty table and the greatest year of
\* the table otherwise, which after the load is the greatest year of the file.
C5_LatestYear ==
    Aggregated =>
        IF table = << >> THEN most_recent_year = None
        ELSE /\ most_recent_year # None
             /\ \A k \in 1..Len(table) : table[k].year.v <= most_recent_year[1]
             /\ \E k \in 1..Len(table) : table[k].year.v = most_recent_year[1]
             /\ \A k \in 1..Len(csv) : ParseInt(csv[k].year) <= most_recent_year[1]
             /\ \E k \in 1..Len(csv) : ParseInt(csv[k].year) = most_recent_year[1]

\* The greatest year is in the first of two loaded rows.
C5_Witness ==
    /\ Aggregated
    /\ Len(table) = 2
    /\ table[1].year.v > table[2].year.v
    /\ most_recent_year = Some(table[1].year.v)

\* C6: a run that finds no CSV ends at once with FileNotFoundError: it opens
\* no connection, leaves the store as it was, and runs no aggregation and no
\* report.
C6_MissingCsvAborts ==
    /\ [][(pc = "start" /\ ~csv_exists) =>
            /\ pc' = "done"
            /\ error' = "FileNotFoundError"
            /\ open = {} /\ open' = {}
            /\ UNCHANGED <<store, locals, stdout, report>>]_vars
    /\ []((pc = "done" /\ error = "FileNotFoundError") =>
            /\ open = {}
            /\ stdout = None
            /\ most_recent_year = None /\ totals_df = << >> /\ top5_df = << >>)

\* A run was aborted for want of the file, and the table and the report of an
\* earlier run are still there.
C6_Witness ==
    /\ pc = "done"
    /\ error = "FileNotFoundError"
    /\ table # << >>
    /\ report # None

Malformed(file) ==
    \E i \in 1..Len(file) :
        file[i].year = << >> \/ ~LooksNumeric(file[i].emissions_mtco2e)

\* C7 as stated: with a malformed row in the file the run ends in the load,
\* with no aggregation and no report, and no row with a value that is no
\* number or without a year is ever in the table.
C7_MalformedRowIsFatal ==
    /\ (csv_exists /\ Malformed(csv)) =>
          /\ pc \notin {"main_connect", "aggregate", "print", "report", "main_close"}
          /\ stdout = None
    /\ \A k \in 1..Len(table) :
          table[k].year.t = "integer" /\ table[k].emissions_mtco2e.t = "real"

\* The row of the file as the table holds it when nothing was changed.
Unmodified(f, r) ==
    /\ r.industry = SqlText(f.industry)
    /\ r.year = SqlInteger(ParseInt(f.year))
    /\ r.emissions_mtco2e =
           IF LooksNumeric(f.emissions_mtco2e)
           THEN SqlReal(ParseInt(f.emissions_mtco2e))
           ELSE SqlText(f.emissions_mtco2e)

LoadSucceeded ==
    \/ pc \in {"create_indexes", "main_connect", "aggregate", "print", "report",
               "main_close"}
    \/ pc \in {"loader_close", "done"} /\ error \in {"none", "OSError", "ValueError"}

\* C8 as stated: after a load that succeeded the table holds the rows of the
\* file, unmodified, and no other, whatever it held before, and a report that
\* is written again for the same file is the report that was there.
C8_LoadReplaces ==
    /\ [](LoadSucceeded =>
            /\ Len(table) = Len(csv)
            /\ \A k \in 1..Len(table) : Unmodified(csv[k], table[k]))
    /\ [][report # None => report' = report]_vars

\* C9 as stated: on a file without data rows, docs/ being writable, the run
\* does not fail: the year is None, the totals and the top-5 are empty, and
\* the console and the report, chart and page, show them so.
C9_EmptyResult ==
    (csv = << >> /\ csv_exists /\ docs_writable) =>
        /\ error = "none"
        /\ pc = "done" =>
              /\ most_recent_year = None
              /\ totals_df = << >>
              /\ top5_df = << >>
              /\ stdout = Some([most_recent_year |-> None, totals |-> << >>,
                                top5 |-> << >>, saved_report |-> TRUE])
              /\ report = Some([most_recent_year |-> None, totals_table |-> << >>,
                                top5_table |-> << >>, chart |-> << >>])

\* C10: the loader's connection is open in the loader and nowhere else, main's
\* connection from its connect to its close and nowhere else, never both, and
\* none when the run is over, however it ended.
C10_ConnectionsScoped ==
    /\ Cardinality(open) <= 1
    /\ "loader" \in open <=>
           pc \in {"drop_create", "read_csv", "to_sql", "create_indexes", "loader_close"}
    /\ "main" \in open <=> pc \in {"aggregate", "print", "report", "main_close"}
    /\ pc = "done" => open = {}

\* A run ended by a failure of the load has no connection left open.
C10_Witness ==
    /\ pc = "done"
    /\ error = "IntegrityError"
    /\ open = {}
    /\ table_exists /\ table = << >>
====
